---- MODULE Spec2Model ----
(***************************************************************************)
(* universal_printer: DocumentPrinter._write_minimal_pdf, the minimal PDF  *)
(* encoder of src/src/universal_printer/document_printer.py, and the file  *)
(* system it writes to.                                                    *)
(*                                                                         *)
(* A Python str is a sequence of code points.  An ASCII code point is the  *)
(* one-character string holding it; other code points are named by their   *)
(* number ("U+00E9", "U+D800").  A bytes object is a sequence of bytes: an *)
(* ASCII byte is the one-character string holding it, any other byte is    *)
(* named by its value ("xC3").                                             *)
(***************************************************************************)
EXTENDS Integers, Sequences, FiniteSets, TLC

\* Longest text handed to one call of the encoder (specification SpecEnc).
MaxLen == 2
\* Number of calls of _write_minimal_pdf in one run (specification Spec).
MaxCalls == 3

VARIABLES
  pc,            \* where the current call of _write_minimal_pdf stands
  content,       \* its argument content
  output_path,   \* its argument output_path
  objs,          \* its local objs (line 110)
  xref_offsets,  \* its local xref_offsets (line 111)
  pdf,           \* its local pdf (line 154)
  result,        \* how the last call ended: "True", "False" or "raised"
  error,         \* the exception the call raised inside its try block
  fs,            \* the file system: what each path holds
  dirs,          \* the directories that exist
  ncalls,        \* calls made so far
  source,        \* history: the content whose whole encoding a path holds
  system,        \* self.system, set by __init__ (line 27)
  userfile,      \* whether the file UserPath exists in the working directory
  ppc,           \* where the current call of a printing method stands
  entry,         \* the public method called
  arg,           \* its first argument: content_or_path, text or file_path
  printer_name,  \* its argument printer_name
  fallback_to_pdf, \* its argument fallback_to_pdf
  pdf_filename,  \* its argument pdf_filename
  temp,          \* the file tempfile.NamedTemporaryFile created, if any
  temp_file,     \* print_document's local temp_file (line 253)
  file_path,     \* print_document's local file_path (line 256)
  original_content, \* print_document's local original_content (line 256)
  raised,        \* the exception print_document's try block raised
  printed,       \* the file handed to the print command, and what it held
  pdf_path,      \* _fallback_pdf_save's local pdf_path (line 192)
  ret,           \* the tuple the printing method returned
  observed       \* what a concurrent reader last read at a path

\* The variables of the printing methods.
pvars == <<system, userfile, ppc, entry, arg, printer_name, fallback_to_pdf,
           pdf_filename, temp, temp_file, file_path, original_content, raised,
           printed, pdf_path, ret>>

vars == <<pc, content, output_path, objs, xref_offsets, pdf, result, error,
          fs, dirs, ncalls, source, pvars, observed>>

----------------------------------------------------------------------------
(* Code points and bytes *)

NonAscii == "U+00E9"
Surrogate == "U+D800"
Alphabet == {"a", "(", ")", "\\", "\n", "\r", NonAscii, Surrogate}

\* The line boundaries of str.splitlines (line 108).
LineBreaks ==
  {"\n", "\r", "\f", "U+000B", "U+001C", "U+001D", "U+001E", "U+0085",
   "U+2028", "U+2029"}

\* Mutant: an ASCII-only codec.
EncodableAscii(c) == c \notin {NonAscii, Surrogate}

\* A code point str.encode("utf-8") accepts: every one but a lone surrogate.
Encodable(c) == c # Surrogate

\* The UTF-8 bytes of one code point.
Utf8(c) == IF c = NonAscii THEN <<"xC3", "xA9">> ELSE <<c>>

CanEncode(s) == \A i \in 1..Len(s) : Encodable(s[i])

\* str.encode("utf-8"): the bytes of every code point, in order.
RECURSIVE Utf8Encode(_)
Utf8Encode(s) ==
  IF Len(s) = 0 THEN <<>>
  ELSE IF Len(s) = 1 THEN Utf8(s[1])
  ELSE LET h == Len(s) \div 2
       IN Utf8Encode(SubSeq(s, 1, h)) \o Utf8Encode(SubSeq(s, h + 1, Len(s)))

DigitChars == <<"0", "1", "2", "3", "4", "5", "6", "7", "8", "9">>

\* The decimal digits of n >= 0, as f"{n}" formats it.
RECURSIVE Dec(_)
Dec(n) == IF n < 10 THEN <<DigitChars[n + 1]>>
          ELSE Dec(n \div 10) \o <<DigitChars[(n % 10) + 1]>>

\* f"{offset:010d}": zero-padded to ten digits.
Pad10(n) ==
  LET d == Dec(n)
  IN IF Len(d) >= 10 THEN d ELSE [i \in 1..(10 - Len(d)) |-> "0"] \o d

\* b"".join(seqs)
RECURSIVE Concat(_)
Concat(seqs) ==
  IF Len(seqs) = 0 THEN <<>>
  ELSE IF Len(seqs) = 1 THEN seqs[1]
  ELSE LET h == Len(seqs) \div 2
       IN Concat(SubSeq(seqs, 1, h)) \o Concat(SubSeq(seqs, h + 1, Len(seqs)))

\* "\n".join(strs)
JoinNL(strs) ==
  Concat([i \in 1..(2 * Len(strs) - 1) |->
            IF i % 2 = 1 THEN strs[(i + 1) \div 2] ELSE <<"\n">>])

----------------------------------------------------------------------------
(* The in-memory part of _write_minimal_pdf, lines 108-176 *)

\* str.splitlines(): the lines of s without their line boundaries; "\r\n"
\* is one boundary, and a final boundary opens no empty last line.
RECURSIVE SplitLines(_)
SplitLines(s) ==
  IF Len(s) = 0 THEN <<>>
  ELSE LET brk == {i \in 1..Len(s) : s[i] \in LineBreaks}
       IN IF brk = {} THEN <<s>>
          ELSE LET i == CHOOSE j \in brk : \A k \in brk : j <= k
                   w == IF s[i] = "\r" /\ i < Len(s) /\ s[i + 1] = "\n"
                        THEN 2 ELSE 1
               IN <<SubSeq(s, 1, i - 1)>>
                    \o SplitLines(SubSeq(s, i + w, Len(s)))

\* str.replace(c, "\\" + c) for a one-character c.
Backslash(s, c) ==
  Concat([i \in 1..Len(s) |-> IF s[i] = c THEN <<"\\", c>> ELSE <<s[i]>>])

\* Mutant: only the opening parenthesis is escaped.
EscapeOpenOnly(line) == Backslash(line, "(")

\* line.replace("(", "\\(").replace(")", "\\)")
Escape(line) == Backslash(Backslash(line, "("), ")")

PositioningCommand ==
  <<"B", "T", " ", "/", "F", "1", " ", "1", "2", " ", "T", "f", " ", "5", "0", " ", "7",
    "5", "0", " ", "T", "d">>

ShowSuffix ==
  <<")", " ", "T", "j", " ", "0", " ", "-", "1", "4", " ", "T", "d">>

\* f"({safe}) Tj 0 -14 Td"
ShowOp(line) == <<"(">> \o Escape(line) \o ShowSuffix

\* Mutant: empty lines are skipped.
TextLinesSkipEmpty(lines) ==
  LET kept == SelectSeq(lines, LAMBDA l : Len(l) > 0)
  IN <<PositioningCommand>> \o [i \in 1..Len(kept) |-> ShowOp(kept[i])]

\* text_lines after the loop of lines 120-124
TextLines(lines) ==
  <<PositioningCommand>> \o [i \in 1..Len(lines) |-> ShowOp(lines[i])]

StreamHead ==
  <<"q", "\n", "1", " ", "0", " ", "0", " ", "1", " ", "0", " ", "0", " ", "c", "m",
    "\n", "B", "T", "\n", "/", "F", "1", " ", "1", "2", " ", "T", "f", "\n", "5", "0",
    " ", "7", "5", "0", " ", "T", "d", "\n">>

StreamTail ==
  <<"\n", "E", "T", "\n", "Q", "\n">>

\* The f-string of lines 126-134.
Stream(text_stream) == StreamHead \o text_stream \o StreamTail

FontObj ==
  <<"<", "<", " ", "/", "T", "y", "p", "e", " ", "/", "F", "o", "n", "t", " ", "/", "S",
    "u", "b", "t", "y", "p", "e", " ", "/", "T", "y", "p", "e", "1", " ", "/", "B", "a",
    "s", "e", "F", "o", "n", "t", " ", "/", "H", "e", "l", "v", "e", "t", "i", "c", "a",
    " ", ">", ">">>

LengthOpen ==
  <<"<", "<", " ", "/", "L", "e", "n", "g", "t", "h", " ">>

StreamOpen ==
  <<" ", ">", ">", "\n", "s", "t", "r", "e", "a", "m", "\n">>

StreamClose ==
  <<"\n", "e", "n", "d", "s", "t", "r", "e", "a", "m">>

\* Mutant: the length of the str, a count of code points.
StreamLengthChars(stream) == Len(stream)

\* The declared /Length: len(content_stream_bytes), a count of bytes.
StreamLength(stream) == Len(Utf8Encode(stream))

\* The content stream object's text, line 140 (before .encode).
ContentObj(stream) ==
  LengthOpen \o Dec(StreamLength(stream)) \o StreamOpen \o stream \o StreamClose

PageA ==
  <<"<", "<", " ", "/", "T", "y", "p", "e", " ", "/", "P", "a", "g", "e", " ", "/", "P",
    "a", "r", "e", "n", "t", " ", "4", " ", "0", " ", "R", " ", "/", "R", "e", "s", "o",
    "u", "r", "c", "e", "s", " ", "<", "<", " ", "/", "F", "o", "n", "t", " ", "<", "<",
    " ", "/", "F", "1", " ">>

PageB ==
  <<" ", "0", " ", "R", " ", ">", ">", " ", ">", ">", " ", "/", "C", "o", "n", "t", "e",
    "n", "t", "s", " ">>

PageC ==
  <<" ", "0", " ", "R", " ", "/", "M", "e", "d", "i", "a", "B", "o", "x", " ", "[", "0",
    " ", "0", " ", "6", "1", "2", " ", "7", "9", "2", "]", " ", ">", ">">>

PageObj(font_obj_num, content_obj_num) ==
  PageA \o Dec(font_obj_num) \o PageB \o Dec(content_obj_num) \o PageC

PagesA ==
  <<"<", "<", " ", "/", "T", "y", "p", "e", " ", "/", "P", "a", "g", "e", "s", " ", "/",
    "K", "i", "d", "s", " ", "[", " ">>

PagesB ==
  <<" ", "0", " ", "R", " ", "]", " ", "/", "C", "o", "u", "n", "t", " ", "1", " ", ">",
    ">">>

PagesObj(page_obj_num) == PagesA \o Dec(page_obj_num) \o PagesB

CatA ==
  <<"<", "<", " ", "/", "T", "y", "p", "e", " ", "/", "C", "a", "t", "a", "l", "o", "g",
    " ", "/", "P", "a", "g", "e", "s", " ">>

CatB ==
  <<" ", "0", " ", "R", " ", ">", ">">>

CatalogObj(pages_obj_num) == CatA \o Dec(pages_obj_num) \o CatB

\* Mutant: objs is shared by the calls and never emptied.
NewObjsShared == objs

\* objs and xref_offsets as a call starts with them (lines 110-111).
NewObjs == <<>>
NewOffsets == <<>>

\* add_obj(s): the offset estimate is the length of the objects joined so
\* far; the object number returned is len(xref_offsets).
AddObj(st, s) ==
  [objs |-> Append(st.objs, s),
   xref_offsets |-> Append(st.xref_offsets, Len(Concat(st.objs)))]

\* Mutant: the index of the object is returned, not its number.
ObjNumIndex(st) == Len(st.xref_offsets) - 1

\* return len(xref_offsets), line 116
ObjNum(st) == Len(st.xref_offsets)

Header ==
  <<"%", "P", "D", "F", "-", "1", ".", "4", "\n">>

ObjHdr ==
  <<" ", "0", " ", "o", "b", "j", "\n">>

EndObj ==
  <<"\n", "e", "n", "d", "o", "b", "j", "\n">>

\* Mutant: the emission loop leaves add_obj's estimate in place.
RecordOffsetKept(offsets, idx, bytes) == offsets

\* xref_offsets[idx - 1] = len(pdf), line 157
RecordOffset(offsets, idx, bytes) == [offsets EXCEPT ![idx] = Len(bytes)]

\* The loop of lines 156-163 from object idx on: the bytes so far and the
\* offsets recorded.
RECURSIVE EmitObjects(_, _, _, _)
EmitObjects(os, idx, bytes, offsets) ==
  IF idx > Len(os) THEN [pdf |-> bytes, xref_offsets |-> offsets]
  ELSE EmitObjects(os, idx + 1,
                   bytes \o Dec(idx) \o ObjHdr \o os[idx] \o EndObj,
                   RecordOffset(offsets, idx, bytes))

Xref ==
  <<"x", "r", "e", "f", "\n">>

FreeEntry ==
  <<"0", "0", "0", "0", "0", "0", "0", "0", "0", "0", " ", "6", "5", "5", "3", "5", " ",
    "f", " ", "\n">>

InUse ==
  <<" ", "0", "0", "0", "0", "0", " ", "n", " ", "\n">>

\* Mutant: the free entry is not counted.
TableSizeObjs(os) == Len(os)

\* The number written after "0 " in the xref header and as /Size.
TableSize(os) == Len(os) + 1

\* Lines 166-170: the cross-reference table.
XrefTable(os, offsets) ==
  Xref \o <<"0", " ">> \o Dec(TableSize(os)) \o <<"\n">> \o FreeEntry
    \o Concat([i \in 1..Len(offsets) |-> Pad10(offsets[i]) \o InUse])

Trailer ==
  <<"t", "r", "a", "i", "l", "e", "r", "\n">>

SizeA ==
  <<"<", "<", " ", "/", "S", "i", "z", "e", " ">>

RootA ==
  <<" ", "/", "R", "o", "o", "t", " ">>

RootB ==
  <<" ", "0", " ", "R", " ", ">", ">", "\n">>

StartXref ==
  <<"s", "t", "a", "r", "t", "x", "r", "e", "f", "\n">>

EOF ==
  <<"%", "%", "E", "O", "F", "\n">>

\* Lines 172-176: trailer, startxref and the end-of-file marker.
TrailerPart(os, catalog_obj_num, xref_start) ==
  Trailer \o SizeA \o Dec(TableSize(os)) \o RootA \o Dec(catalog_obj_num)
    \o RootB \o StartXref \o Dec(xref_start) \o <<"\n">> \o EOF

\* Lines 135-151: the five objects, in the order add_obj receives them.
\* Stops after the font object when the stream cannot be encoded (line 138
\* raises).
BuildObjects(stream) ==
  LET s0 == [objs |-> NewObjs, xref_offsets |-> NewOffsets]
      s1 == AddObj(s0, Utf8Encode(FontObj))
      font_obj_num == ObjNum(s1)
  IN IF ~CanEncode(stream)
     THEN [ok |-> FALSE, st |-> s1, catalog_obj_num |-> 0]
     ELSE LET s2 == AddObj(s1, Utf8Encode(ContentObj(stream)))
              content_obj_num == ObjNum(s2)
              s3 == AddObj(s2, Utf8Encode(PageObj(font_obj_num, content_obj_num)))
              page_obj_num == ObjNum(s3)
              s4 == AddObj(s3, Utf8Encode(PagesObj(page_obj_num)))
              pages_obj_num == ObjNum(s4)
              s5 == AddObj(s4, Utf8Encode(CatalogObj(pages_obj_num)))
          IN [ok |-> TRUE, st |-> s5, catalog_obj_num |-> ObjNum(s5)]

\* Lines 153-176: the whole file from the objects.
Assemble(st, catalog_obj_num) ==
  LET e == EmitObjects(st.objs, 1, Header, st.xref_offsets)
      xref_start == Len(e.pdf)
  IN [pdf |-> e.pdf \o XrefTable(st.objs, e.xref_offsets)
                \o TrailerPart(st.objs, catalog_obj_num, xref_start),
      xref_offsets |-> e.xref_offsets]

----------------------------------------------------------------------------
(* Arguments, the file system and exceptions *)

Paths == {"Downloads/a.pdf", "Downloads/b.pdf"}

\* output_path.parent
Parent(p) == "Downloads"

\* A str argument, or an object whose __str__ raises.
Text(t) == [kind |-> "str", text |-> t]
Unprintable == [kind |-> "object", text |-> <<>>]
NoContent == [kind |-> "none", text |-> <<>>]

TextsUpTo(n) == UNION {[1..k -> Alphabet] : k \in 0..n}

\* The arguments of specification SpecEnc: every text up to MaxLen.
EncContents == {Text(t) : t \in TextsUpTo(MaxLen)}

\* The arguments of specification Spec.
SampleContents ==
  {Text(<<>>), Text(<<"a">>), Text(<<"(", NonAscii>>), Text(<<Surrogate>>),
   Unprintable}

Absent == [exists |-> FALSE, data |-> <<>>]
File(bytes) == [exists |-> TRUE, data |-> bytes]

\* Mutant: except OSError.
CaughtOSError(e) == e = "OSError"

\* except Exception (line 183): the classes the handler catches.
Caught(e) == e \in {"Exception", "UnicodeEncodeError", "OSError"}

\* Lines 183-185: the handler returns False; an exception it does not catch
\* leaves the call.
Outcome(e) == IF Caught(e) THEN "False" ELSE "raised"

\* Where f.write(pdf) may stop when it fails: before the first byte, or
\* part of the way.
PartialCuts(bytes) == {0, Len(bytes) \div 2}

\* The paths _fallback_pdf_save may write besides Paths: a name given in
\* capitals, and the default name of line 189.
FallbackPaths == {"Downloads/a.PDF", "Downloads/document_20261105_101500.pdf"}
AllPaths == Paths \cup FallbackPaths

\* No name, no path: None.
None == [some |-> FALSE, name |-> <<>>]
Some(n) == [some |-> TRUE, name |-> n]

\* No printing method has been called.
InitPrinter ==
  /\ ppc = "idle"
  /\ entry = "none"
  /\ arg = <<>>
  /\ printer_name = "None"
  /\ fallback_to_pdf = TRUE
  /\ pdf_filename = None
  /\ temp = Absent
  /\ temp_file = "None"
  /\ file_path = "none"
  /\ original_content = NoContent
  /\ raised = "none"
  /\ printed = [file |-> "none", data |-> <<>>]
  /\ pdf_path = None
  /\ ret = [returned |-> FALSE, success |-> FALSE, pdf |-> None]
  /\ observed = Absent

\* No call of _write_minimal_pdf has been made.
InitEncoder ==
  /\ pc = "idle"
  /\ content = NoContent
  /\ output_path = "Downloads/a.pdf"
  /\ objs = <<>>
  /\ xref_offsets = <<>>
  /\ pdf = <<>>
  /\ result = "none"
  /\ error = "none"
  /\ fs = [p \in AllPaths |-> Absent]
  /\ ncalls = 0
  /\ source = [p \in AllPaths |-> NoContent]

Init ==
  /\ InitEncoder
  /\ InitPrinter
  /\ dirs = {}
  /\ system = "Linux"
  /\ userfile = FALSE

\* An exception raised inside the try block ends the call (lines 183-185).
Raise(e) ==
  /\ pc' = "idle"
  /\ error' = e
  /\ result' = Outcome(e)

\* _write_minimal_pdf(content, output_path) up to line 176: everything it
\* does in memory.
Call(c, p) ==
  /\ pc = "idle"
  /\ ncalls < MaxCalls
  /\ ncalls' = ncalls + 1
  /\ content' = c
  /\ output_path' = p
  /\ IF c.kind # "str"
     THEN /\ Raise("Exception")
          /\ objs' = <<>>
          /\ xref_offsets' = <<>>
          /\ pdf' = <<>>
     ELSE LET lines == SplitLines(c.text)
              text_stream == JoinNL(TextLines(lines))
              stream == Stream(text_stream)
              b == BuildObjects(stream)
          IN IF ~b.ok
             THEN /\ Raise("UnicodeEncodeError")
                  /\ objs' = b.st.objs
                  /\ xref_offsets' = b.st.xref_offsets
                  /\ pdf' = <<>>
             ELSE LET a == Assemble(b.st, b.catalog_obj_num)
                  IN /\ objs' = b.st.objs
                     /\ xref_offsets' = a.xref_offsets
                     /\ pdf' = a.pdf
                     /\ pc' = "mkdir"
                     /\ error' = "none"
                     /\ result' = "none"
  /\ UNCHANGED <<fs, dirs, source>>

\* output_path.parent.mkdir(parents=True, exist_ok=True), line 178
MkdirOK ==
  /\ pc = "mkdir"
  /\ dirs' = dirs \cup {Parent(output_path)}
  /\ pc' = "open"
  /\ UNCHANGED <<content, output_path, objs, xref_offsets, pdf, result, error,
                 fs, ncalls, source>>

\* mkdir fails (no permission to create the directory).
MkdirFail ==
  /\ pc = "mkdir"
  /\ Parent(output_path) \notin dirs
  /\ Raise("OSError")
  /\ UNCHANGED <<content, output_path, objs, xref_offsets, pdf, fs, dirs,
                 ncalls, source>>

\* open(output_path, "wb"), line 179: creates the file or truncates it.
OpenOK ==
  /\ pc = "open"
  /\ fs' = [fs EXCEPT ![output_path] = File(<<>>)]
  /\ source' = [source EXCEPT ![output_path] = NoContent]
  /\ pc' = "write"
  /\ UNCHANGED <<content, output_path, objs, xref_offsets, pdf, result, error,
                 dirs, ncalls>>

\* open fails (the file is not writable).
OpenFail ==
  /\ pc = "open"
  /\ Raise("OSError")
  /\ UNCHANGED <<content, output_path, objs, xref_offsets, pdf, fs, dirs,
                 ncalls, source>>

\* f.write(pdf) and the close of the with block succeed; line 182 returns.
WriteOK ==
  /\ pc = "write"
  /\ fs' = [fs EXCEPT ![output_path] = File(pdf)]
  /\ source' = [source EXCEPT ![output_path] = content]
  /\ pc' = "idle"
  /\ result' = "True"
  /\ UNCHANGED <<content, output_path, objs, xref_offsets, pdf, error, dirs,
                 ncalls>>

\* f.write(pdf), or the flush of the closing with block, fails after k bytes
\* (disk full); the file is closed and the handler runs.
WriteFail(k) ==
  /\ pc = "write"
  /\ fs' = [fs EXCEPT ![output_path] = File(SubSeq(pdf, 1, k))]
  /\ Raise("OSError")
  /\ UNCHANGED <<content, output_path, objs, xref_offsets, pdf, dirs, ncalls,
                 source>>

Next ==
  /\ UNCHANGED <<pvars, observed>>
  /\ \/ \E c \in SampleContents, p \in Paths : Call(c, p)
     \/ MkdirOK
     \/ MkdirFail
     \/ OpenOK
     \/ OpenFail
     \/ WriteOK
     \/ \E k \in PartialCuts(pdf) : WriteFail(k)

\* Calls in sequence, on a few contents.
Spec == Init /\ [][Next]_vars

NextEnc ==
  /\ UNCHANGED <<pvars, observed>>
  /\ \/ \E c \in EncContents, p \in Paths : ncalls = 0 /\ Call(c, p)
     \/ MkdirOK
     \/ MkdirFail
     \/ OpenOK
     \/ OpenFail
     \/ WriteOK
     \/ \E k \in PartialCuts(pdf) : WriteFail(k)

\* One call, on every text up to MaxLen.
SpecEnc == Init /\ [][NextEnc]_vars

----------------------------------------------------------------------------
(* print_document, print_text, print_file and the PDF fallback *)

\* platform.system() (line 27): the two supported branches of lines 265 and
\* 284 ("Darwin" takes the branch of "Linux") and an unsupported system.
Systems == {"Linux", "Windows", "Java"}

IsUnix(s) == s \in {"Darwin", "Linux"}

\* printer_name: None, a name holding "pdf" in some case, and the Windows
\* PDF printer.
PrinterNames == {"None", "PDF", "Microsoft Print to PDF"}

\* printer_name and "pdf" in printer_name.lower(), line 269
NamesPdf(pn) == pn \in {"PDF", "Microsoft Print to PDF"}

\* printer_name and "Microsoft Print to PDF" in printer_name, line 219
IsMicrosoftPdf(pn) == pn = "Microsoft Print to PDF"

NameA ==
  <<"a">>

NameAPdf ==
  <<"a", ".", "p", "d", "f">>

NameAPDF ==
  <<"a", ".", "P", "D", "F">>

PdfSuffix ==
  <<".", "p", "d", "f">>

DocumentPrefix ==
  <<"d", "o", "c", "u", "m", "e", "n", "t", "_">>

PrintPrefix ==
  <<"p", "r", "i", "n", "t", "_">>

\* datetime.now().strftime('%Y%m%d_%H%M%S') at the time of the call
Timestamp ==
  <<"2", "0", "2", "6", "1", "1", "0", "5", "_", "1", "0", "1", "5", "0", "0">>

\* The pdf_filename arguments: None, the empty name, and a name without the
\* suffix, with it, and with it in capitals.
Filenames == {None, Some(<<>>), Some(NameA), Some(NameAPdf), Some(NameAPDF)}

\* not filename (line 188), pdf_filename or ... (line 270)
Falsy(fn) == ~fn.some \/ fn.name = <<>>

\* str.lower() on the letters of the names above
Lower(c) ==
  CASE c = "P" -> "p"
    [] c = "D" -> "d"
    [] c = "F" -> "f"
    [] OTHER -> c

LowerStr(s) == [i \in 1..Len(s) |-> Lower(s[i])]

\* str.endswith
EndsWith(s, suffix) ==
  /\ Len(s) >= Len(suffix)
  /\ SubSeq(s, Len(s) - Len(suffix) + 1, Len(s)) = suffix

\* Mutant: the suffix is looked for as written, not in lower case.
HasPdfSuffixExact(filename) == EndsWith(filename, PdfSuffix)

\* filename.lower().endswith(".pdf"), line 190
HasPdfSuffix(filename) == EndsWith(LowerStr(filename), PdfSuffix)

\* Lines 188-191: the file name _fallback_pdf_save writes to.
FallbackFilename(filename) ==
  IF Falsy(filename)
  THEN DocumentPrefix \o Timestamp \o PdfSuffix
  ELSE IF ~HasPdfSuffix(filename.name)
       THEN filename.name \o PdfSuffix
       ELSE filename.name

\* Lines 270-271: the file name of print-to-PDF through lp.
ToPdfName(filename) ==
  IF Falsy(filename) THEN PrintPrefix \o Timestamp \o PdfSuffix
  ELSE filename.name

\* self.downloads_path / filename (line 192): the file of Downloads that has
\* this name; every other name is one further file of the directory.
DownloadsPath(name) ==
  CASE name = NameAPdf -> "Downloads/a.pdf"
    [] name = NameAPDF -> "Downloads/a.PDF"
    [] name = DocumentPrefix \o Timestamp \o PdfSuffix
         -> "Downloads/document_20261105_101500.pdf"
    [] OTHER -> "Downloads/b.pdf"

\* The content_or_path arguments.
PrintArgs == {<<>>, NameA, <<"(", NonAscii>>, <<Surrogate>>}

\* Path(content_or_path).exists(), lines 92 and 327: Path("") is the current
\* directory, which exists; "a" exists when the user has such a file.
PathExists(x) == x = <<>> \/ (x = NameA /\ userfile)

\* The two bytes of the user's file "a"; a directory has none to print.
UserData(x) == IF x = NameA THEN <<"h", "i">> ELSE <<>>

\* _read_file_content (lines 53-79) of the file "a": no suffix, so no MIME
\* type is guessed and the description of lines 72-79 is returned.
FileInfo ==
  <<"F", "i", "l", "e", " ", "I", "n", "f", "o", "r", "m", "a", "t", "i", "o", "n", ":",
    "\n", "N", "a", "m", "e", ":", " ", "a", "\n", "T", "y", "p", "e", ":", " ", "a",
    "p", "p", "l", "i", "c", "a", "t", "i", "o", "n", "/", "o", "c", "t", "e", "t", "-",
    "s", "t", "r", "e", "a", "m", "\n", "S", "i", "z", "e", ":", " ", "2", " ", "b", "y",
    "t", "e", "s", "\n", "P", "a", "t", "h", ":", " ", "a", "\n", "\n", "[", "T", "h",
    "i", "s", " ", "i", "s", " ", "a", " ", "b", "i", "n", "a", "r", "y", " ", "f", "i",
    "l", "e", " ", "t", "h", "a", "t", " ", "c", "a", "n", "n", "o", "t", " ", "b", "e",
    " ", "d", "i", "s", "p", "l", "a", "y", "e", "d", " ", "a", "s", " ", "t", "e", "x",
    "t", "]", "\n", "[", "O", "r", "i", "g", "i", "n", "a", "l", " ", "f", "i", "l", "e",
    " ", "w", "i", "l", "l", " ", "b", "e", " ", "s", "e", "n", "t", " ", "t", "o", " ",
    "p", "r", "i", "n", "t", "e", "r", " ", "i", "f", " ", "s", "u", "p", "p", "o", "r",
    "t", "e", "d", "]">>

\* _read_file_content of the current directory.
DirInfo ==
  <<"F", "i", "l", "e", " ", "I", "n", "f", "o", "r", "m", "a", "t", "i", "o", "n", ":",
    "\n", "N", "a", "m", "e", ":", " ", "\n", "T", "y", "p", "e", ":", " ", "a", "p",
    "p", "l", "i", "c", "a", "t", "i", "o", "n", "/", "o", "c", "t", "e", "t", "-", "s",
    "t", "r", "e", "a", "m", "\n", "S", "i", "z", "e", ":", " ", "4", ",", "0", "9", "6",
    " ", "b", "y", "t", "e", "s", "\n", "P", "a", "t", "h", ":", " ", ".", "\n", "\n",
    "[", "T", "h", "i", "s", " ", "i", "s", " ", "a", " ", "b", "i", "n", "a", "r", "y",
    " ", "f", "i", "l", "e", " ", "t", "h", "a", "t", " ", "c", "a", "n", "n", "o", "t",
    " ", "b", "e", " ", "d", "i", "s", "p", "l", "a", "y", "e", "d", " ", "a", "s", " ",
    "t", "e", "x", "t", "]", "\n", "[", "O", "r", "i", "g", "i", "n", "a", "l", " ", "f",
    "i", "l", "e", " ", "w", "i", "l", "l", " ", "b", "e", " ", "s", "e", "n", "t", " ",
    "t", "o", " ", "p", "r", "i", "n", "t", "e", "r", " ", "i", "f", " ", "s", "u", "p",
    "p", "o", "r", "t", "e", "d", "]">>

ReadFileContent(x) == IF x = <<>> THEN DirInfo ELSE FileInfo

\* file_path.suffix.lower() == ".txt" (line 234): true of the temporary file
\* (suffix=".txt", line 82), false of "a" and of ".".
IsTxt(fp) == fp = "temp"

\* The outcomes of subprocess.run(..., check=True): the command succeeds,
\* exits with an error, or is not installed.
PrintOutcomes == {"ok", "CalledProcessError", "FileNotFoundError"}

\* The first line of the last-resort file, line 199, as UTF-8.
Banner ==
  <<"<", "<", " ", "W", "A", "R", "N", "I", "N", "G", ":", " ", "C", "o", "u", "l", "d",
    " ", "n", "o", "t", " ", "b", "u", "i", "l", "d", " ", "P", "D", "F", ",", " ", "f",
    "a", "l", "l", "b", "a", "c", "k", " ", "t", "o", " ", "t", "e", "x", "t", " ", ">",
    ">", "\n">>

InitPrint ==
  /\ InitEncoder
  /\ InitPrinter
  /\ dirs \in SUBSET {"Downloads"}
  /\ system \in Systems
  /\ userfile \in BOOLEAN

\* The bytes of the file handed to the print command.
FileData == IF file_path = "temp" THEN temp.data ELSE UserData(arg)

\* A return statement inside the try block or its handler: the finally
\* clause runs before the caller has the tuple.
Return(success, path) ==
  /\ ret' = [returned |-> FALSE, success |-> success, pdf |-> path]
  /\ ppc' = "finally"

\* An exception reaches the handler of line 295.
RaisePrint(e) ==
  /\ raised' = e
  /\ ppc' = "except"
  /\ UNCHANGED ret

\* A call of print_document, print_text or print_file. print_file returns at
\* line 328 when the path does not exist; the others enter print_document
\* (temp_file = None, line 253).
PrintCall(e, a, pn, fb, fn) ==
  /\ ppc = "idle"
  /\ entry' = e
  /\ arg' = a
  /\ printer_name' = pn
  /\ fallback_to_pdf' = fb
  /\ pdf_filename' = fn
  /\ temp_file' = "None"
  /\ IF e = "print_file" /\ ~PathExists(a)
     THEN /\ ret' = [returned |-> TRUE, success |-> FALSE, pdf |-> None]
          /\ ppc' = "done"
     ELSE /\ ppc' = "prepare"
          /\ UNCHANGED ret
  /\ UNCHANGED <<system, userfile, temp, file_path, original_content, raised,
                 printed, pdf_path>>
  /\ UNCHANGED <<pc, content, output_path, objs, xref_offsets, pdf, result,
                 error, fs, dirs, ncalls, source, observed>>

\* _prepare_file_for_printing, lines 92-96: the argument names an existing
\* file, which is read and is the file to print; is_temp is False (line 257).
PrepareExisting ==
  /\ ppc = "prepare"
  /\ PathExists(arg)
  /\ file_path' = "user"
  /\ original_content' = Text(ReadFileContent(arg))
  /\ temp_file' = "None"
  /\ ppc' = "dispatch"
  /\ UNCHANGED <<system, userfile, entry, arg, printer_name, fallback_to_pdf,
                 pdf_filename, temp, raised, printed, pdf_path, ret>>
  /\ UNCHANGED <<pc, content, output_path, objs, xref_offsets, pdf, result,
                 error, fs, dirs, ncalls, source, observed>>

\* _write_temp_text, line 82: NamedTemporaryFile(delete=False) creates the
\* file, empty.
CreateTemp ==
  /\ ppc = "prepare"
  /\ ~PathExists(arg)
  /\ temp' = File(<<>>)
  /\ ppc' = "tempwrite"
  /\ UNCHANGED <<system, userfile, entry, arg, printer_name, fallback_to_pdf,
                 pdf_filename, temp_file, file_path, original_content, raised,
                 printed, pdf_path, ret>>
  /\ UNCHANGED <<pc, content, output_path, objs, xref_offsets, pdf, result,
                 error, fs, dirs, ncalls, source, observed>>

\* NamedTemporaryFile fails (no room, no temporary directory): nothing is
\* created.
CreateTempFail ==
  /\ ppc = "prepare"
  /\ ~PathExists(arg)
  /\ RaisePrint("OSError")
  /\ UNCHANGED <<system, userfile, entry, arg, printer_name, fallback_to_pdf,
                 pdf_filename, temp, temp_file, file_path, original_content,
                 printed, pdf_path>>
  /\ UNCHANGED <<pc, content, output_path, objs, xref_offsets, pdf, result,
                 error, fs, dirs, ncalls, source, observed>>

\* Lines 83-86 and 98-100, then line 257: the text is written as UTF-8, the
\* file is closed and becomes file_path and temp_file.
WriteTempText ==
  /\ ppc = "tempwrite"
  /\ CanEncode(arg)
  /\ temp' = File(Utf8Encode(arg))
  /\ file_path' = "temp"
  /\ temp_file' = "temp"
  /\ original_content' = Text(arg)
  /\ ppc' = "dispatch"
  /\ UNCHANGED <<system, userfile, entry, arg, printer_name, fallback_to_pdf,
                 pdf_filename, raised, printed, pdf_path, ret>>
  /\ UNCHANGED <<pc, content, output_path, objs, xref_offsets, pdf, result,
                 error, fs, dirs, ncalls, source, observed>>

\* f.write or f.flush raises (line 83 or 84): the text has a code point
\* UTF-8 cannot encode, or the disk is full. _write_temp_text does not
\* return, so the assignment of line 257 never runs: temp_file keeps None and
\* original_content is not bound.
WriteTempTextFail(e) ==
  /\ ppc = "tempwrite"
  /\ e = "UnicodeEncodeError" => ~CanEncode(arg)
  /\ e = "OSError" => CanEncode(arg)
  /\ RaisePrint(e)
  /\ UNCHANGED <<system, userfile, entry, arg, printer_name, fallback_to_pdf,
                 pdf_filename, temp, temp_file, file_path, original_content,
                 printed, pdf_path>>
  /\ UNCHANGED <<pc, content, output_path, objs, xref_offsets, pdf, result,
                 error, fs, dirs, ncalls, source, observed>>

\* Lines 265-282 and _print_unix: lp is run on file_path; on success the
\* call returns, with the print-to-PDF path when the printer name asks for
\* one; any failure reaches the handler of line 295.
PrintUnix(o) ==
  /\ ppc = "dispatch"
  /\ IsUnix(system)
  /\ printed' = [file |-> file_path, data |-> FileData]
  /\ IF o = "ok"
     THEN /\ Return(TRUE, IF NamesPdf(printer_name)
                          THEN Some(ToPdfName(pdf_filename)) ELSE None)
          /\ UNCHANGED raised
     ELSE RaisePrint(o)
  /\ UNCHANGED <<system, userfile, entry, arg, printer_name, fallback_to_pdf,
                 pdf_filename, temp, temp_file, file_path, original_content,
                 pdf_path>>
  /\ UNCHANGED <<pc, content, output_path, objs, xref_offsets, pdf, result,
                 error, fs, dirs, ncalls, source, observed>>

\* Lines 284-290 and _print_windows up to line 231: the print verb is run on
\* file_path. When it exits with an error and the printer is not the PDF
\* printer, a .txt file is tried again with notepad (line 234).
PrintWindows(o) ==
  /\ ppc = "dispatch"
  /\ system = "Windows"
  /\ printed' = [file |-> file_path, data |-> FileData]
  /\ IF o = "ok"
     THEN /\ Return(TRUE, None)
          /\ UNCHANGED raised
     ELSE IF /\ o = "CalledProcessError"
             /\ ~IsMicrosoftPdf(printer_name)
             /\ IsTxt(file_path)
          THEN /\ ppc' = "notepad"
               /\ UNCHANGED <<raised, ret>>
          ELSE RaisePrint(o)
  /\ UNCHANGED <<system, userfile, entry, arg, printer_name, fallback_to_pdf,
                 pdf_filename, temp, temp_file, file_path, original_content,
                 pdf_path>>
  /\ UNCHANGED <<pc, content, output_path, objs, xref_offsets, pdf, result,
                 error, fs, dirs, ncalls, source, observed>>

\* Lines 235-236: notepad /P on the file.
Notepad(o) ==
  /\ ppc = "notepad"
  /\ IF o = "ok"
     THEN /\ Return(TRUE, None)
          /\ UNCHANGED raised
     ELSE RaisePrint(o)
  /\ UNCHANGED <<system, userfile, entry, arg, printer_name, fallback_to_pdf,
                 pdf_filename, temp, temp_file, file_path, original_content,
                 printed, pdf_path>>
  /\ UNCHANGED <<pc, content, output_path, objs, xref_offsets, pdf, result,
                 error, fs, dirs, ncalls, source, observed>>

\* Lines 292-293: any other system returns at once; nothing is raised, so
\* the handler and its fallback do not run.
UnsupportedOS ==
  /\ ppc = "dispatch"
  /\ ~IsUnix(system)
  /\ system # "Windows"
  /\ Return(FALSE, None)
  /\ UNCHANGED <<system, userfile, entry, arg, printer_name, fallback_to_pdf,
                 pdf_filename, temp, temp_file, file_path, original_content,
                 raised, printed, pdf_path>>
  /\ UNCHANGED <<pc, content, output_path, objs, xref_offsets, pdf, result,
                 error, fs, dirs, ncalls, source, observed>>

\* Lines 305-306: the fallback is disabled.
ExceptNoFallback ==
  /\ ppc = "except"
  /\ ~fallback_to_pdf
  /\ Return(FALSE, None)
  /\ UNCHANGED <<system, userfile, entry, arg, printer_name, fallback_to_pdf,
                 pdf_filename, temp, temp_file, file_path, original_content,
                 raised, printed, pdf_path>>
  /\ UNCHANGED <<pc, content, output_path, objs, xref_offsets, pdf, result,
                 error, fs, dirs, ncalls, source, observed>>

\* Line 299: original_content when _prepare_file_for_printing returned, else
\* str(content_or_path).
ContentForPdf ==
  IF original_content.kind = "str" THEN original_content ELSE Text(arg)

\* Lines 297-300 and 188-193: the handler calls _fallback_pdf_save, which
\* names the file and calls _write_minimal_pdf.
FallbackPdfSave ==
  /\ ppc = "except"
  /\ fallback_to_pdf
  /\ pdf_path' = Some(FallbackFilename(pdf_filename))
  /\ Call(ContentForPdf, DownloadsPath(FallbackFilename(pdf_filename)))
  /\ ppc' = "pdfcall"
  /\ UNCHANGED <<system, userfile, entry, arg, printer_name, fallback_to_pdf,
                 pdf_filename, temp, temp_file, file_path, original_content,
                 raised, printed, ret, observed>>

\* Lines 194-195 and 301-302: _write_minimal_pdf returned True.
FallbackSaved ==
  /\ ppc = "pdfcall"
  /\ pc = "idle"
  /\ result = "True"
  /\ Return(FALSE, pdf_path)
  /\ UNCHANGED <<system, userfile, entry, arg, printer_name, fallback_to_pdf,
                 pdf_filename, temp, temp_file, file_path, original_content,
                 raised, printed, pdf_path>>
  /\ UNCHANGED <<pc, content, output_path, objs, xref_offsets, pdf, result,
                 error, fs, dirs, ncalls, source, observed>>

\* Lines 197-202: _write_minimal_pdf returned False; the banner and the text
\* are written to the same path, which is returned.
LastResort ==
  /\ ppc = "pdfcall"
  /\ pc = "idle"
  /\ result = "False"
  /\ Parent(output_path) \in dirs
  /\ CanEncode(content.text)
  /\ fs' = [fs EXCEPT ![output_path] = File(Banner \o Utf8Encode(content.text))]
  /\ source' = [source EXCEPT ![output_path] = NoContent]
  /\ Return(FALSE, pdf_path)
  /\ UNCHANGED <<system, userfile, entry, arg, printer_name, fallback_to_pdf,
                 pdf_filename, temp, temp_file, file_path, original_content,
                 raised, printed, pdf_path>>
  /\ UNCHANGED <<pc, content, output_path, objs, xref_offsets, pdf, result,
                 error, dirs, ncalls, observed>>

\* open(pdf_path, "w") fails (line 198): the directory is missing or the file
\* is not writable; the handler of line 203 returns None.
LastResortOpenFail ==
  /\ ppc = "pdfcall"
  /\ pc = "idle"
  /\ result = "False"
  /\ error' = "OSError"
  /\ Return(FALSE, None)
  /\ UNCHANGED <<system, userfile, entry, arg, printer_name, fallback_to_pdf,
                 pdf_filename, temp, temp_file, file_path, original_content,
                 raised, printed, pdf_path>>
  /\ UNCHANGED <<pc, content, output_path, objs, xref_offsets, pdf, result,
                 fs, dirs, ncalls, source, observed>>

\* The file is opened and truncated, and a write fails: the text cannot be
\* encoded (line 200, after the banner went to the buffer that the closing
\* with block flushes), or the disk is full. The handler returns None.
LastResortWriteFail(e) ==
  /\ ppc = "pdfcall"
  /\ pc = "idle"
  /\ result = "False"
  /\ Parent(output_path) \in dirs
  /\ e = "UnicodeEncodeError" => ~CanEncode(content.text)
  /\ e = "OSError" => CanEncode(content.text)
  /\ fs' = [fs EXCEPT ![output_path] =
              File(IF e = "UnicodeEncodeError" THEN Banner ELSE <<>>)]
  /\ source' = [source EXCEPT ![output_path] = NoContent]
  /\ error' = e
  /\ Return(FALSE, None)
  /\ UNCHANGED <<system, userfile, entry, arg, printer_name, fallback_to_pdf,
                 pdf_filename, temp, temp_file, file_path, original_content,
                 raised, printed, pdf_path>>
  /\ UNCHANGED <<pc, content, output_path, objs, xref_offsets, pdf, result,
                 dirs, ncalls, observed>>

\* Lines 307-312, then the caller has the tuple: the file temp_file names is
\* deleted if it exists. A failing unlink is swallowed by line 311 and is
\* not modelled: the deletion is taken to succeed.
Finally ==
  /\ ppc = "finally"
  /\ temp' = IF temp_file = "temp" /\ temp.exists THEN Absent ELSE temp
  /\ ret' = [ret EXCEPT !.returned = TRUE]
  /\ ppc' = "done"
  /\ UNCHANGED <<system, userfile, entry, arg, printer_name, fallback_to_pdf,
                 pdf_filename, temp_file, file_path, original_content, raised,
                 printed, pdf_path>>
  /\ UNCHANGED <<pc, content, output_path, objs, xref_offsets, pdf, result,
                 error, fs, dirs, ncalls, source, observed>>

\* The steps of _write_minimal_pdf on the file system.
EncoderIO ==
  /\ UNCHANGED <<pvars, observed>>
  /\ \/ MkdirOK
     \/ MkdirFail
     \/ OpenOK
     \/ OpenFail
     \/ WriteOK
     \/ \E k \in PartialCuts(pdf) : WriteFail(k)

NextPrint ==
  \/ \E e \in {"print_document", "print_text", "print_file"}, a \in PrintArgs,
        pn \in PrinterNames, fb \in BOOLEAN, fn \in Filenames :
       PrintCall(e, a, pn, fb, fn)
  \/ PrepareExisting
  \/ CreateTemp
  \/ CreateTempFail
  \/ WriteTempText
  \/ \E e \in {"UnicodeEncodeError", "OSError"} : WriteTempTextFail(e)
  \/ \E o \in PrintOutcomes : PrintUnix(o)
  \/ \E o \in PrintOutcomes : PrintWindows(o)
  \/ \E o \in PrintOutcomes : Notepad(o)
  \/ UnsupportedOS
  \/ ExceptNoFallback
  \/ FallbackPdfSave
  \/ EncoderIO
  \/ FallbackSaved
  \/ LastResort
  \/ LastResortOpenFail
  \/ \E e \in {"UnicodeEncodeError", "OSError"} : LastResortWriteFail(e)
  \/ Finally

\* One call of a printing method, on every combination of the arguments.
SpecPrint == InitPrint /\ [][NextPrint]_vars

\* Another process reads the destination while a call of _write_minimal_pdf
\* is between its first and last statement: it sees the file as it is then.
Read ==
  /\ pc # "idle"
  /\ observed' = fs[output_path]
  /\ UNCHANGED <<pc, content, output_path, objs, xref_offsets, pdf, result,
                 error, fs, dirs, ncalls, source, pvars>>

NextReader ==
  \/ Next
  \/ Read

\* Calls in sequence, with a reader of the destination beside them.
SpecReader == Init /\ [][NextReader]_vars

----------------------------------------------------------------------------
(* A reader of the written file: what the claims below say is said of the  *)
(* bytes a PDF reader finds, located the way a reader locates them.        *)

\* The file the last call wrote, once it has returned True.
Returned == pc = "idle" /\ ncalls > 0
Written == fs[output_path].data

\* pat stands in f at byte offset off (offsets count from 0).
At(f, off, pat) ==
  /\ off >= 0
  /\ off + Len(pat) <= Len(f)
  /\ SubSeq(f, off + 1, off + Len(pat)) = pat

IsDigit(c) == \E d \in 1..10 : DigitChars[d] = c
DigitVal(c) == (CHOOSE d \in 1..10 : DigitChars[d] = c) - 1

RECURSIVE ParseDec(_)
ParseDec(s) ==
  IF Len(s) = 0 THEN 0
  ELSE ParseDec(SubSeq(s, 1, Len(s) - 1)) * 10 + DigitVal(s[Len(s)])

\* The digits that stand at offset off, and the number they write.
DigitsAt(f, off) ==
  LET stop == CHOOSE j \in off..Len(f) :
                /\ j = Len(f) \/ ~IsDigit(f[j + 1])
                /\ \A i \in (off + 1)..j : IsDigit(f[i])
  IN SubSeq(f, off + 1, stop)
NumberAt(f, off) == ParseDec(DigitsAt(f, off))

\* The first offset >= from at which pat stands, or -1.
Find(f, pat, from) ==
  LET hits == {o \in from..(Len(f) - Len(pat)) : At(f, o, pat)}
  IN IF hits = {} THEN -1 ELSE CHOOSE o \in hits : \A h \in hits : o <= h

\* The number on the line before the final %%EOF line: where xref starts.
StartXrefOf(f) ==
  LET e == Len(f) - Len(EOF) - 1
      s == CHOOSE j \in 0..e :
             /\ j = 0 \/ f[j] = "\n"
             /\ \A i \in (j + 1)..e : f[i] # "\n"
  IN ParseDec(SubSeq(f, s + 1, e))

\* The count of the subsection header "0 <count>" after the xref keyword.
XrefCount(f) == NumberAt(f, StartXrefOf(f) + Len(Xref) + 2)

\* Where the entry lines start, and entry k (k = 0 is the free entry).
EntriesStart(f) ==
  StartXrefOf(f) + Len(Xref) + 2 + Len(DigitsAt(f, StartXrefOf(f) + Len(Xref) + 2)) + 1
EntryOff(f, k) == EntriesStart(f) + Len(FreeEntry) * k
XrefOffset(f, k) == ParseDec(SubSeq(f, EntryOff(f, k) + 1, EntryOff(f, k) + 10))

\* The number of entry lines: those between the header and the trailer keyword.
TrailerOff(f) == Find(f, Trailer, EntriesStart(f))
EntryLines(f) == (TrailerOff(f) - EntriesStart(f)) \div Len(FreeEntry)

\* /Size and /Root of the trailer dictionary.
TrailerSize(f) == NumberAt(f, Find(f, <<"/", "S", "i", "z", "e", " ">>, TrailerOff(f)) + 6)
TrailerRoot(f) == NumberAt(f, Find(f, <<"/", "R", "o", "o", "t", " ">>, TrailerOff(f)) + 6)

\* What add_obj recorded for object k: the length of the objects before it.
Estimate(k) == Len(Concat(SubSeq(objs, 1, k - 1)))

----------------------------------------------------------------------------
\* C1: after a call that returned True, every cross-reference entry k of the
\* written file (k = 1..5) holds the offset at which "k 0 obj" begins; it is
\* the offset the emission loop recorded and not add_obj's estimate.
C1_OffsetsPointAtObjects ==
  (Returned /\ result = "True") =>
    \A k \in 1..5 :
      /\ At(Written, XrefOffset(Written, k), Dec(k) \o <<" ", "0", " ", "o", "b", "j">>)
      /\ XrefOffset(Written, k) = xref_offsets[k]
      /\ XrefOffset(Written, k) # Estimate(k)

C1_Witness ==
  /\ Returned
  /\ result = "True"
  /\ Len(content.text) > 0
  /\ At(Written, XrefOffset(Written, 5), <<"5", " ", "0", " ", "o", "b", "j">>)

----------------------------------------------------------------------------
\* C8: after a call that returned True, the count of the xref subsection
\* header, the number of entry lines and the trailer /Size all equal the
\* number of objects plus one, which is 6, and the first entry line is the
\* free-list line.
C8_TableSize ==
  (Returned /\ result = "True") =>
    /\ At(Written, StartXrefOf(Written), Xref \o <<"0", " ">>)
    /\ XrefCount(Written) = Len(objs) + 1
    /\ XrefCount(Written) = 6
    /\ (TrailerOff(Written) - EntriesStart(Written)) % Len(FreeEntry) = 0
    /\ EntryLines(Written) = XrefCount(Written)
    /\ TrailerSize(Written) = XrefCount(Written)
    /\ At(Written, EntryOff(Written, 0), FreeEntry)
    /\ \A k \in 1..(EntryLines(Written) - 1) :
         At(Written, EntryOff(Written, k) + 10, InUse)

C8_Witness ==
  /\ Returned
  /\ result = "True"
  /\ EntryLines(Written) = 6
  /\ content.text = <<>>

----------------------------------------------------------------------------
(* The objects of the written file *)

kwStream == <<"s", "t", "r", "e", "a", "m", "\n">>
kwEndstream == <<"e", "n", "d", "s", "t", "r", "e", "a", "m">>

\* Object k's body: from after "k 0 obj\n" to before "\nendobj\n", which
\* ends where the next object, or the xref keyword, starts.
ObjBodyStart(f, k) == XrefOffset(f, k) + Len(Dec(k)) + Len(ObjHdr)
ObjBodyEnd(f, k) ==
  (IF k < 5 THEN XrefOffset(f, k + 1) ELSE StartXrefOf(f)) - Len(EndObj)
ObjBody(f, k) == SubSeq(f, ObjBodyStart(f, k) + 1, ObjBodyEnd(f, k))

\* The number that follows /Length in object 2.
DeclaredLength(f) == NumberAt(f, ObjBodyStart(f, 2) + Len(LengthOpen))

\* The offset after the first "stream\n" of object 2, and the offset of the
\* endstream keyword that closes the object.
StreamDataStart(f) == Find(f, kwStream, ObjBodyStart(f, 2)) + Len(kwStream)
EndstreamOff(f) == ObjBodyEnd(f, 2) - Len(kwEndstream)

----------------------------------------------------------------------------
\* C2 (as amended): after a call that returned True, the /Length declared in
\* object 2 equals the number of bytes between "stream\n" and the end-of-line
\* byte that precedes "endstream"; the file holds one byte more, that "\n",
\* between "stream\n" and "endstream".
C2_LengthIsPayload ==
  (Returned /\ result = "True") =>
    /\ At(Written, ObjBodyStart(Written, 2), LengthOpen)
    /\ At(Written, EndstreamOff(Written), kwEndstream)
    /\ At(Written, EndstreamOff(Written) - 1, <<"\n">>)
    /\ DeclaredLength(Written)
         = (EndstreamOff(Written) - 1) - StreamDataStart(Written)

\* C2 as claimed: /Length equals the number of bytes the file holds between
\* "stream\n" and "endstream".
C2_Original ==
  (Returned /\ result = "True") =>
    DeclaredLength(Written) = EndstreamOff(Written) - StreamDataStart(Written)

C2_Witness ==
  /\ Returned
  /\ result = "True"
  /\ \E i \in 1..Len(content.text) : content.text[i] = NonAscii
  /\ DeclaredLength(Written) > 0

----------------------------------------------------------------------------
\* C3 (as amended): a call on a text all of whose characters can be encoded
\* in UTF-8 (the empty text too), with no I/O failure, returns True and the
\* file starts with the 8 bytes %PDF-1.4; a call on a text with a character
\* that cannot be encoded (a lone surrogate) returns False and leaves the
\* destination as it was.
HasSurrogate(t) == \E i \in 1..Len(t) : t[i] = Surrogate

Magic == <<"%", "P", "D", "F", "-", "1", ".", "4">>

C3_SuccessOnEncodableText ==
  (Returned /\ content.kind = "str" /\ error # "OSError") =>
    IF ~HasSurrogate(content.text)
    THEN result = "True" /\ SubSeq(Written, 1, 8) = Magic
    ELSE result = "False" /\ fs[output_path] = Absent

\* C3 as claimed: every text, also one with characters that cannot be
\* encoded, returns True with the header written.
C3_Original ==
  (Returned /\ content.kind = "str" /\ error # "OSError") =>
    result = "True" /\ SubSeq(Written, 1, 8) = Magic

C3_Witness ==
  /\ Returned
  /\ result = "True"
  /\ content = Text(<<NonAscii>>)
  /\ SubSeq(Written, 1, 8) = Magic

----------------------------------------------------------------------------
(* The content stream of the written file *)

\* The /Length bytes that follow "stream\n".
StreamData(f) ==
  SubSeq(f, StreamDataStart(f) + 1, StreamDataStart(f) + DeclaredLength(f))

\* The pieces of b between its "\n" bytes.
RECURSIVE SplitNL(_)
SplitNL(b) ==
  LET nl == {i \in 1..Len(b) : b[i] = "\n"}
  IN IF nl = {} THEN <<b>>
     ELSE LET i == CHOOSE j \in nl : \A k \in nl : j <= k
          IN <<SubSeq(b, 1, i - 1)>> \o SplitNL(SubSeq(b, i + 1, Len(b)))

\* The code points that UTF-8 bytes write.
RECURSIVE Utf8Decode(_)
Utf8Decode(b) ==
  IF Len(b) = 0 THEN <<>>
  ELSE IF Len(b) >= 2 /\ b[1] = "xC3" /\ b[2] = "xA9"
       THEN <<NonAscii>> \o Utf8Decode(SubSeq(b, 3, Len(b)))
       ELSE <<b[1]>> \o Utf8Decode(SubSeq(b, 2, Len(b)))

StreamLines(f) == SplitNL(StreamData(f))

\* The lines q, cm, BT, Tf, Td that open every stream, and ET, Q and the
\* final line end that close it.
FixedHead == SubSeq(SplitNL(StreamHead), 1, 5)
FixedTail == <<<<"E", "T">>, <<"Q">>, <<>>>>

\* The lines between the positioning command and ET.
ShowOps(f) == SubSeq(StreamLines(f), 7, Len(StreamLines(f)) - 3)

IsShowOp(op) ==
  /\ Len(op) >= 1 + Len(ShowSuffix)
  /\ op[1] = "("
  /\ At(op, Len(op) - Len(ShowSuffix), ShowSuffix)

\* The string a show operator embeds, as code points.
Embedded(op) == Utf8Decode(SubSeq(op, 2, Len(op) - Len(ShowSuffix)))
ShownStrings(f) == [i \in 1..Len(ShowOps(f)) |-> Embedded(ShowOps(f)[i])]

\* s.replace("\\" + c, c): the escaping of c reversed, left to right.
RECURSIVE Unbackslash(_, _)
Unbackslash(s, c) ==
  IF Len(s) = 0 THEN <<>>
  ELSE IF Len(s) >= 2 /\ s[1] = "\\" /\ s[2] = c
       THEN <<c>> \o Unbackslash(SubSeq(s, 3, Len(s)), c)
       ELSE <<s[1]>> \o Unbackslash(SubSeq(s, 2, Len(s)), c)

\* The reader's rule: "\(" becomes "(", then "\)" becomes ")".
Unescape(s) == Unbackslash(Unbackslash(s, "("), ")")

Parens(s) == Cardinality({i \in 1..Len(s) : s[i] \in {"(", ")"}})

----------------------------------------------------------------------------
\* C6 (as amended): after a call that returned True on a text, reversing the
\* escaping rule on the strings embedded in the show operators recovers
\* every line of the text (the lines of str.splitlines) verbatim and in
\* order, and each embedded string is its line with one backslash more per
\* parenthesis; the line boundaries themselves are not kept.
C6_LinesRoundTrip ==
  (Returned /\ result = "True") =>
    LET shown == ShownStrings(Written)
        lines == SplitLines(content.text)
    IN /\ Len(shown) = Len(lines)
       /\ \A i \in 1..Len(lines) :
            /\ Unescape(shown[i]) = lines[i]
            /\ Len(shown[i]) = Len(lines[i]) + Parens(lines[i])

\* C6 as claimed: the unescaped strings give back the text verbatim.
C6_Original ==
  (Returned /\ result = "True") =>
    LET shown == ShownStrings(Written)
    IN JoinNL([i \in 1..Len(shown) |-> Unescape(shown[i])]) = content.text

C6_Witness ==
  /\ Returned
  /\ result = "True"
  /\ content = Text(<<"(", ")">>)
  /\ ShownStrings(Written) = <<<<"\\", "(", "\\", ")">>>>

----------------------------------------------------------------------------
\* C7 (as amended): after a call that returned True on a text whose lines are
\* L1..Ln, the content stream holds, after its fixed opening lines, the
\* positioning command and then exactly n show operators "(Ei) Tj 0 -14 Td"
\* in input order, Ei being Li with "(" and ")" backslash-escaped, and then
\* ET and Q; for n = 0 no show operator follows the positioning command.
C7_ShowOperators ==
  (Returned /\ result = "True") =>
    LET sl == StreamLines(Written)
        ops == ShowOps(Written)
        lines == SplitLines(content.text)
    IN /\ SubSeq(sl, 1, 5) = FixedHead
       /\ sl[6] = PositioningCommand
       /\ SubSeq(sl, Len(sl) - 2, Len(sl)) = FixedTail
       /\ Len(ops) = Len(lines)
       /\ \A i \in 1..Len(lines) :
            /\ IsShowOp(ops[i])
            /\ Unescape(Embedded(ops[i])) = lines[i]
            /\ Len(Embedded(ops[i])) = Len(lines[i]) + Parens(lines[i])

\* C7 as claimed: show operator i is "(Li) Tj 0 -14 Td" with the line Li
\* itself between the parentheses.
C7_Original ==
  (Returned /\ result = "True") =>
    LET sl == StreamLines(Written)
        ops == ShowOps(Written)
        lines == SplitLines(content.text)
    IN /\ sl[6] = PositioningCommand
       /\ Len(ops) = Len(lines)
       /\ \A i \in 1..Len(lines) :
            ops[i] = <<"(">> \o Utf8Encode(lines[i]) \o ShowSuffix

C7_Witness ==
  /\ Returned
  /\ result = "True"
  /\ content = Text(<<"a", "\n">>)
  /\ Len(ShowOps(Written)) = 1

C7_WitnessEmpty ==
  /\ Returned
  /\ result = "True"
  /\ content = Text(<<>>)
  /\ Len(ShowOps(Written)) = 0

----------------------------------------------------------------------------
(* The object graph of the written file *)

tFont == <<"<", "<", " ", "/", "T", "y", "p", "e", " ", "/", "F", "o", "n", "t", " ">>
tPage == <<"<", "<", " ", "/", "T", "y", "p", "e", " ", "/", "P", "a", "g", "e", " ">>
tPages == <<"<", "<", " ", "/", "T", "y", "p", "e", " ", "/", "P", "a", "g", "e", "s", " ">>
tCatalog == <<"<", "<", " ", "/", "T", "y", "p", "e", " ", "/", "C", "a", "t", "a", "l", "o", "g", " ">>
kwParent == <<"/", "P", "a", "r", "e", "n", "t", " ">>
kwPages == <<"/", "P", "a", "g", "e", "s", " ">>
kwKids == <<"/", "K", "i", "d", "s", " ", "[", " ">>
kwF1 == <<"/", "F", "1", " ">>
kwContents == <<"/", "C", "o", "n", "t", "e", "n", "t", "s", " ">>
Ref == <<" ", "0", " ", "R">>

IsFont(b) == At(b, 0, tFont)
IsContent(b) == At(b, 0, LengthOpen) /\ At(b, Len(b) - Len(kwEndstream), kwEndstream)
IsPage(b) == At(b, 0, tPage)
IsPages(b) == At(b, 0, tPages)
IsCatalog(b) == At(b, 0, tCatalog)

\* The object number of the indirect reference "<n> 0 R" that follows the
\* first kw of b, or 0 when no reference follows it.
RefAfter(b, kw) ==
  LET o == Find(b, kw, 0)
  IN IF o < 0 THEN 0
     ELSE IF At(b, o + Len(kw) + Len(DigitsAt(b, o + Len(kw))), Ref)
          THEN NumberAt(b, o + Len(kw))
          ELSE 0

\* C9: after a call that returned True, the file holds, between the header
\* and the xref keyword, exactly five objects numbered 1..5 in file order:
\* Font, Content Stream, Page, Pages, Catalog; the Page's /Parent and the
\* Catalog's /Pages name the Pages object, the Pages /Kids list names the
\* Page and nothing else, the Page's /F1 and /Contents name the Font and the
\* Content Stream, and the trailer /Root names the Catalog.
C9_ObjectGraph ==
  (Returned /\ result = "True") =>
    LET f == Written
        B(k) == ObjBody(f, k)
    IN /\ XrefCount(f) - 1 = 5
       /\ XrefOffset(f, 1) = Len(Header)
       /\ \A k \in 1..5 :
            /\ At(f, XrefOffset(f, k), Dec(k) \o ObjHdr)
            /\ At(f, ObjBodyEnd(f, k), EndObj)
       /\ At(f, StartXrefOf(f), Xref)
       /\ IsFont(B(1))
       /\ IsContent(B(2))
       /\ IsPage(B(3))
       /\ IsPages(B(4))
       /\ IsCatalog(B(5))
       /\ RefAfter(B(3), kwParent) \in 1..5 /\ IsPages(B(RefAfter(B(3), kwParent)))
       /\ RefAfter(B(5), kwPages) \in 1..5 /\ IsPages(B(RefAfter(B(5), kwPages)))
       /\ RefAfter(B(4), kwKids) \in 1..5 /\ IsPage(B(RefAfter(B(4), kwKids)))
       /\ At(B(4), Find(B(4), kwKids, 0) + Len(kwKids)
                     + Len(DigitsAt(B(4), Find(B(4), kwKids, 0) + Len(kwKids))),
             Ref \o <<" ", "]">>)
       /\ RefAfter(B(3), kwF1) \in 1..5 /\ IsFont(B(RefAfter(B(3), kwF1)))
       /\ RefAfter(B(3), kwContents) \in 1..5
       /\ IsContent(B(RefAfter(B(3), kwContents)))
       /\ TrailerRoot(f) \in 1..5 /\ IsCatalog(B(TrailerRoot(f)))

C9_Witness ==
  /\ Returned
  /\ result = "True"
  /\ content = Text(<<"a", NonAscii>>)
  /\ RefAfter(ObjBody(Written, 3), kwParent) = 4
  /\ TrailerRoot(Written) = 5

----------------------------------------------------------------------------
\* C4: no call of _write_minimal_pdf raises past its caller: a failure while
\* converting, encoding, creating the directory, opening or writing ends the
\* call with False, and a call has returned True only with the whole byte
\* sequence written to the destination.
C4_NeverRaises ==
  /\ result # "raised"
  /\ (Returned /\ error # "none") => result = "False"
  /\ result = "False" => error # "none"
  /\ result = "True" =>
       /\ pc = "idle"
       /\ error = "none"
       /\ fs[output_path] = File(pdf)
       /\ At(pdf, 0, Header)
       /\ At(pdf, Len(pdf) - Len(EOF), EOF)

C4_Witness ==
  /\ Returned
  /\ content = Unprintable
  /\ error = "Exception"
  /\ result = "False"
  /\ \E p \in Paths : fs[p].exists /\ fs[p].data # <<>>

C4_WitnessEncode ==
  /\ Returned
  /\ error = "UnicodeEncodeError"
  /\ result = "False"

C4_WitnessIO ==
  /\ Returned
  /\ error = "OSError"
  /\ result = "False"
  /\ fs[output_path].exists

----------------------------------------------------------------------------
\* A whole document: from the header to the end-of-file marker.
CompletePdf(d) == At(d, 0, Header) /\ At(d, Len(d) - Len(EOF), EOF)

\* A file that is there and is not a whole document.
Truncated(file) == file.exists /\ ~CompletePdf(file.data)

\* C5: after every call the destination either holds the complete PDF, the
\* call having returned True, or holds no truncated or partially written
\* file, the call having returned False.
C5_NoPartialFile ==
  Returned =>
    \/ result = "True" /\ fs[output_path] = File(pdf)
    \/ result = "False" /\ ~Truncated(fs[output_path])

----------------------------------------------------------------------------
\* C10: whenever two different paths each hold the whole encoding of the
\* same text, written by two calls in either order and with any other calls
\* before or between them, the two files are byte-identical.
C10_SameTextSameBytes ==
  \A p, q \in Paths :
    (source[p].kind = "str" /\ source[p] = source[q]) => fs[p] = fs[q]

C10_Witness ==
  /\ Returned
  /\ ncalls >= 3
  /\ source["Downloads/a.pdf"].kind = "str"
  /\ source["Downloads/a.pdf"] = source["Downloads/b.pdf"]
  /\ fs["Downloads/a.pdf"].data = pdf
  /\ fs["Downloads/b.pdf"].data = pdf

----------------------------------------------------------------------------
\* The file a returned path names: the file of Downloads with that name.
Named(p) == fs[DownloadsPath(p.name)]

\* The call entered print_document: print_file does so on an existing path.
Entered == entry # "none" /\ (entry = "print_file" => PathExists(arg))

\* C11: a call of print_document, print_text or print_file (on an existing
\* file) with fallback_to_pdf=True, during which no write of the fallback
\* file failed, returns success = True or a path that is not None and names
\* an existing file, on every content, system and print outcome.
C11_SucceedsOrFallsBack ==
  (ret.returned /\ Entered /\ fallback_to_pdf /\ error # "OSError") =>
    \/ ret.success
    \/ ret.pdf.some /\ Named(ret.pdf).exists

----------------------------------------------------------------------------
\* The path _fallback_pdf_save returned to the handler of line 300.
FallbackReturned == ret.returned /\ raised # "none" /\ ret.pdf.some

Last4(n) == SubSeq(n, Len(n) - 3, Len(n))
Stem(n) == SubSeq(n, 1, Len(n) - 4)
GivenName == pdf_filename.some /\ pdf_filename.name # <<>>

\* C12: the path _fallback_pdf_save returns ends with '.pdf' in some letter
\* case. For no name or the empty name it is document_<timestamp>.pdf; a
\* given name that ends with '.pdf' in any letter case is returned as given,
\* capitals kept and no suffix added; any other given name is returned with
\* '.pdf' appended once.
C12_PdfSuffix ==
  FallbackReturned =>
    LET n == ret.pdf.name
        g == pdf_filename.name
    IN /\ Len(n) > 4
       /\ LowerStr(Last4(n)) = PdfSuffix
       /\ ~GivenName => n = DocumentPrefix \o Timestamp \o PdfSuffix
       /\ GivenName =>
            IF Len(g) >= 4 /\ LowerStr(Last4(g)) = PdfSuffix
            THEN n = g
            ELSE Stem(n) = g /\ Last4(n) = PdfSuffix

\* C12 as stated: the returned path ends with '.pdf', once, and keeps the
\* given name, also when the given name has the suffix in capitals.
C12_Original ==
  FallbackReturned =>
    LET n == ret.pdf.name
        g == pdf_filename.name
    IN /\ Len(n) > 4
       /\ Last4(n) = PdfSuffix
       /\ GivenName =>
            IF Len(g) >= 4 /\ LowerStr(Last4(g)) = PdfSuffix
            THEN Stem(n) = Stem(g)
            ELSE Stem(n) = g

\* A name given with the suffix in capitals came back from the fallback.
C12_Witness ==
  /\ FallbackReturned
  /\ pdf_filename = Some(NameAPDF)
  /\ ret.pdf.name = NameAPDF
  /\ Named(ret.pdf).exists

\* A name given without the suffix came back with it.
C12_WitnessAppended ==
  /\ FallbackReturned
  /\ pdf_filename = Some(NameA)
  /\ ret.pdf.name = NameAPdf

----------------------------------------------------------------------------
\* C13: a reader of the destination during the first call, before which the
\* path held nothing, sees nothing or the complete PDF, never an empty or
\* partially written file.
C13_ReaderNeverSeesTruncated ==
  (ncalls = 1 /\ observed.exists) => observed = File(pdf)

----------------------------------------------------------------------------
\* C14: after print_document has returned, on every path through it, the
\* temporary file it created for the text is deleted.
C14_TempFileDeleted ==
  (ret.returned /\ Entered) => ~temp.exists

----------------------------------------------------------------------------
\* C15: print_text hands the print command a temporary file holding exactly
\* the text, and the PDF fallback is given the text itself, also when the
\* text is the path of an existing file.
C15_TextIsContent ==
  entry = "print_text" =>
    /\ printed.file # "none" =>
         printed.file = "temp" /\ printed.data = Utf8Encode(arg)
    /\ content.kind = "str" => content = Text(arg)

====
